---- MODULE Spec2Model ----
(***************************************************************************)
(* Model of the witness-driven chunk streaming loader of feldspar-map      *)
(* (crates/feldspar-map/src/plugin/loader.rs).                             *)
(*                                                                         *)
(* loader_system runs once per frame on the tick thread.  Its first loop   *)
(* polls handles of tasks that run on the IoTaskPool; the pool finishes a  *)
(* task at any moment, also between two iterations of that loop.  The tick *)
(* is therefore modelled one loop iteration per step (one pop and poll,    *)
(* one witness), interleaved with the completion of background tasks.      *)
(*                                                                         *)
(* The clipmap (broad_phase_load_search, near_phase_load_search,           *)
(* fulfill_pending_load) lives outside loader.rs; it is modelled from the  *)
(* node state machine  unloaded -> pending -> loaded | empty  over a       *)
(* one-dimensional world whose node addresses are 1..NumAddr.  The store   *)
(* holds a chunk for the odd addresses and none for the even ones; every   *)
(* read_working_version succeeds.  Witnesses walk the line chunk by chunk. *)
(*                                                                         *)
(* Task handles are reused once their task has been applied, so that an    *)
(* unbounded number of ticks fits in a finite state space.                 *)
(***************************************************************************)
EXTENDS Integers, Sequences, FiniteSets, TLC

\* ---------------------------------------------------------------- bounds
NumWitnesses == 2
NumAddr == 2
MaxBatchSize == 2
MaxCap == 2

Witnesses == 1..NumWitnesses
Addr == 1..NumAddr
\* Position p > 0 is inside chunk p; position 0 is outside the map.
Pos == 0..NumAddr
\* Task handles.  A handle is reused once its task has left the queue; one
\* more than the largest cap, so that a free handle always exists.
Ids == 1..(MaxCap + 1)
None == "None"

VARIABLES
    config,        \* MapConfig.loader : LoaderConfig
    db,            \* MapDb : what read_working_version returns per address
    witnesses,     \* the (Witness, Transform) query
    clipmap,       \* ChunkClipMap : state of every node
    tasks,         \* PendingLoadTasks.tasks : VecDeque of task handles
    task,          \* the background task behind every handle
    pc,            \* position of the tick thread inside loader_system
    wi,            \* index of the witness the for loop is at
    subOrder,      \* history: outstanding batches, oldest submission first
    polls,         \* history: polls made by the current tick (saturating)
    startLen,      \* history: queue length when the current tick began
    notReadySeen,  \* history: the current tick polled a task that was not ready
    last           \* history: what the last step of loader_system did

vars == <<config, db, witnesses, clipmap, tasks, task, pc, wi,
          subOrder, polls, startLen, notReadySeen, last>>

\* ------------------------------------------------------------- helpers
Min(a, b) == IF a <= b THEN a ELSE b
Abs(x) == IF x < 0 THEN 0 - x ELSE x
Range(s) == {s[i] : i \in DOMAIN s}
Take(s, k) == SubSeq(s, 1, Min(k, Len(s)))
NoDup(s) == \A i, j \in DOMAIN s : s[i] = s[j] => i = j

\* LoaderConfig
LoaderConfig == [load_batch_size : 0..MaxBatchSize,
                 max_pending_load_tasks : 0..MaxCap]

\* Witness: previous_transform is an Option (<<>> is None, <<p>> is Some(p)),
\* the Transform is the position.
WitnessState == [prev : {<<>>} \cup {<<p>> : p \in Pos}, cur : Pos]

NoTask == [state |-> "none", keys |-> <<>>, reads |-> <<>>]

NoOp == [op |-> "none", w |-> 0, id |-> 0, n |-> 0, hadPrev |-> FALSE,
         broad |-> FALSE, marked |-> {}, atCap |-> FALSE, near |-> FALSE,
         submit |-> FALSE, search |-> <<>>, calls |-> <<>>, reads |-> <<>>,
         applied |-> FALSE]

\* ------------------------------------------------- PendingLoadTasks
num_tasks(q) == Len(q)

push(q, t) == Append(q, t)

\* pop is called on a non-empty queue here; the empty case is DrainExit.
popFront(q) == Head(q)
popRest(q) == Tail(q)

\* ----------------------------------------------------- ChunkClipMap
NodeState == {"unloaded", "pending", "loaded", "empty"}

\* The clip sphere of a witness covers the chunk the witness is in.
InRange(a, p) == a = p

\* Marks the nodes that came into range with the loading sentinel.
broad_phase_load_search(cm, old, new) ==
    [a \in DOMAIN cm |->
        IF cm[a] = "unloaded" /\ InRange(a, new) /\ ~InRange(a, old)
        THEN "pending" ELSE cm[a]]

Closer(a, b, p) ==
    \/ Abs(a - p) < Abs(b - p)
    \/ Abs(a - p) = Abs(b - p) /\ a <= b

RECURSIVE SortByDist(_, _)
SortByDist(S, p) ==
    IF S = {} THEN <<>>
    ELSE LET a == CHOOSE x \in S : \A y \in S : Closer(x, y, p)
         IN  <<a>> \o SortByDist(S \ {a}, p)

\* The nodes that carry the loading sentinel, closest to the witness first.
near_phase_load_search(cm, p) ==
    SortByDist({a \in DOMAIN cm : cm[a] = "pending"}, p)

\* Mutant of fulfill_pending_load: an absent payload is stored as loaded.
fulfill_always_loaded(cm, key, chunk) == [cm EXCEPT ![key] = "loaded"]

fulfill_pending_load(cm, key, chunk) ==
    [cm EXCEPT ![key] = IF chunk = None THEN "empty" ELSE "loaded"]

\* ------------------------------------------------------ loader_system
\* Mutant of ReadBatch: the keys are read last to first.
ReadBatchReversed(d, keys) ==
    [i \in DOMAIN keys |-> [key |-> keys[Len(keys) + 1 - i],
                            chunk |-> d[keys[Len(keys) + 1 - i]]]]

\* The background task: one read_working_version per key, in key order.
ReadBatch(d, keys) ==
    [i \in DOMAIN keys |-> [key |-> keys[i], chunk |-> d[keys[i]]]]

\* Mutant of RunTask: a failed read is skipped and the task finishes with
\* the other reads.
RunTaskSkipErr(d, keys) ==
    [state |-> "done",
     reads |-> ReadBatch(d, SelectSeq(keys, LAMBDA k : d[k] # "err"))]

\* The async block: read_working_version(key).unwrap() panics on the first
\* failed read, so that the task never yields a LoadedBatch; else the task
\* finishes with all its reads.
RunTask(d, keys) ==
    IF \E j \in DOMAIN keys : d[keys[j]] = "err"
    THEN [state |-> "failed", reads |-> <<>>]
    ELSE [state |-> "done", reads |-> ReadBatch(d, keys)]

\* Mutant of FulfillCalls: pairs without a payload are passed over.
FulfillPresentOnly(reads) == SelectSeq(reads, LAMBDA r : r.chunk # None)

\* The (key, archived_chunk) pairs the for loop over loaded_batch.reads
\* hands to fulfill_pending_load.
FulfillCalls(reads) == reads

RECURSIVE ApplyCalls(_, _)
ApplyCalls(cm, calls) ==
    IF calls = <<>> THEN cm
    ELSE ApplyCalls(fulfill_pending_load(cm, Head(calls).key, Head(calls).chunk),
                    Tail(calls))

\* Mutant of TaskEffect: the task writes what it read into the index itself.
TaskWritesIndex(cm, reads) == ApplyCalls(cm, reads)

\* What a finishing task does to the index: nothing, the async block owns
\* db_clone and batch_keys only and returns its reads.
TaskEffect(cm, reads) == cm

\* future::block_on(future::poll_once(&mut task)) is Some(_) exactly when the
\* task has finished.
PollReady(tk) == tk.state = "done"

\* Polling the handle of a task that panicked panics in turn (the Task future
\* of the executor has no output to give: "task has failed").
PollPanics(tk) == tk.state = "failed"

\* Mutant of LoopEnds: the loop also ends once a task was found not ready.
LoopEndsOnNotReady(q, sawNotReady) == q = <<>> \/ sawNotReady

\* When  while let Some(mut task) = load_tasks.pop()  ends: when pop returns
\* None, that is on an empty queue, and on nothing else.
LoopEnds(q, sawNotReady) == q = <<>>

\* Mutant of Requeue: a task found not ready is not put back.
RequeueDropped(rest, t) == rest

\* Where a task that was polled and found not ready goes.
Requeue(rest, t) == push(rest, t)

\* Mutant of AfterReady: a task found ready stays queued.
AfterReadyKept(rest, t) == push(rest, t)

\* The queue after a task was polled and found ready.
AfterReady(rest, t) == rest

\* Mutant of AtCap: the cap test is off by one.
AtCapOffByOne(n, cfg) == n > cfg.max_pending_load_tasks

\* The test that skips the submission of a batch.
AtCap(n, cfg) == n >= cfg.max_pending_load_tasks

\* Mutant of BatchKeys: one candidate too many is taken.
BatchKeysOneMore(search, cfg) == Take(search, cfg.load_batch_size + 1)

\* search.take(load_batch_size).collect()
BatchKeys(search, cfg) == Take(search, cfg.load_batch_size)

\* Mutant of Moved: an absent previous transform counts as the current one.
MovedOrStill(wt) ==
    <<[old |-> IF wt.prev # <<>> THEN wt.prev[1] ELSE wt.cur, new |-> wt.cur]>>

\* if let Some(prev_tfm) = witness.previous_transform.as_ref(): the old and
\* the new position of a witness that has a previous transform, else nothing.
Moved(wt) ==
    IF wt.prev # <<>> THEN <<[old |-> wt.prev[1], new |-> wt.cur]>> ELSE <<>>

\* Mutant of BroadPhaseRuns: the broad phase comes after the cap test.
BroadPhaseAfterCapTest(atCap) == ~atCap

\* Whether the broad phase runs for a witness with a previous transform,
\* given the outcome of the cap test: it runs before the test.
BroadPhaseRuns(atCap) == TRUE

\* Mutant of NearPhaseInput: the near phase searches the index as it was
\* before the broad phase of this witness.
NearPhaseBeforeBroad(before, after) == before

\* The index the near phase searches, given the index before and after the
\* broad phase of this witness: the broad phase has run by then.
NearPhaseInput(before, after) == after

\* Mutant of SpawnsTask: no task is spawned for an empty batch.
SpawnsNonEmptyOnly(batch_keys) == batch_keys # <<>>

\* Whether a task is spawned for the batch: always, whatever it holds.
SpawnsTask(batch_keys) == TRUE

\* Mutant of Enqueue: the new handle goes to the front.
EnqueueFront(q, t) == <<t>> \o q

\* load_tasks.tasks.push_back(load_task)
Enqueue(q, t) == Append(q, t)

\* The handle io_pool.spawn returns: one that names no live task.
FreshId(tk) ==
    CHOOSE i \in Ids : /\ tk[i].state = "none"
                       /\ \A j \in Ids : tk[j].state = "none" => i <= j

Remove(s, x) == SelectSeq(s, LAMBDA y : y # x)

\* The poll counter saturates above every possible queue length.
Bump(n) == Min(n + 1, MaxCap + 1)

\* -------------------------------------------------------------- Init
Init ==
    /\ config \in LoaderConfig
    /\ db = [a \in Addr |-> IF a % 2 = 1 THEN "data" ELSE None]
    /\ witnesses = [w \in Witnesses |-> [prev |-> <<>>, cur |-> 0]]
    /\ clipmap = [a \in Addr |-> "unloaded"]
    /\ tasks = <<>>
    /\ task = [i \in Ids |-> NoTask]
    /\ pc = "idle"
    /\ wi = 1
    /\ subOrder = <<>>
    /\ polls = 0
    /\ startLen = 0
    /\ notReadySeen = FALSE
    /\ last = NoOp

\* As Init, with a store that fails to read one of the addresses.
FailInit ==
    /\ config \in LoaderConfig
    /\ \E e \in Addr :
          db = [a \in Addr |-> IF a = e THEN "err"
                               ELSE IF a % 2 = 1 THEN "data" ELSE None]
    /\ witnesses = [w \in Witnesses |-> [prev |-> <<>>, cur |-> 0]]
    /\ clipmap = [a \in Addr |-> "unloaded"]
    /\ tasks = <<>>
    /\ task = [i \in Ids |-> NoTask]
    /\ pc = "idle"
    /\ wi = 1
    /\ subOrder = <<>>
    /\ polls = 0
    /\ startLen = 0
    /\ notReadySeen = FALSE
    /\ last = NoOp

\* ----------------------------------------------------------- actions
\* The witness walks along the line of chunks, one chunk per move, and comes
\* back in from outside the map after the last chunk.
NextPos(p) == (p + 1) % (NumAddr + 1)

\* Another system moves a witness between two runs of loader_system and
\* records where it was.
MoveWitness(w) ==
    /\ pc = "idle"
    /\ witnesses' = [witnesses EXCEPT ![w] =
                        [prev |-> <<witnesses[w].cur>>,
                         cur |-> NextPos(witnesses[w].cur)]]
    /\ last' = NoOp
    /\ UNCHANGED <<config, db, clipmap, tasks, task, pc, wi,
                   subOrder, polls, startLen, notReadySeen>>

\* The IoTaskPool finishes a spawned task.
Complete(i) ==
    /\ pc # "panicked"
    /\ task[i].state = "running"
    /\ task' = [task EXCEPT ![i].state = RunTask(db, task[i].keys).state,
                            ![i].reads = RunTask(db, task[i].keys).reads]
    /\ clipmap' = TaskEffect(clipmap, RunTask(db, task[i].keys).reads)
    /\ UNCHANGED <<config, db, witnesses, tasks, pc, wi,
                   subOrder, polls, startLen, notReadySeen, last>>

\* The scheduler runs loader_system.
TickStart ==
    /\ pc = "idle"
    /\ pc' = "drain"
    /\ polls' = 0
    /\ startLen' = Len(tasks)
    /\ notReadySeen' = FALSE
    /\ last' = [NoOp EXCEPT !.op = "start"]
    /\ UNCHANGED <<config, db, witnesses, clipmap, tasks, task, wi, subOrder>>

\* One iteration of  while let Some(mut task) = load_tasks.pop().
DrainStep ==
    /\ pc = "drain"
    /\ ~LoopEnds(tasks, notReadySeen)
    /\ tasks # <<>>
    /\ LET t == popFront(tasks)
           rest == popRest(tasks)
       IN  IF PollPanics(task[t])
           THEN /\ pc' = "panicked"
                /\ tasks' = rest
                /\ notReadySeen' = notReadySeen
                /\ last' = [NoOp EXCEPT !.op = "panic", !.id = t,
                                        !.applied = last.applied]
                /\ UNCHANGED <<clipmap, task, subOrder>>
           ELSE IF PollReady(task[t])
           THEN LET calls == FulfillCalls(task[t].reads)
                IN  /\ pc' = pc
                    /\ clipmap' = ApplyCalls(clipmap, calls)
                    /\ tasks' = AfterReady(rest, t)
                    /\ task' = [task EXCEPT ![t] = NoTask]
                    /\ subOrder' = Remove(subOrder, t)
                    /\ notReadySeen' = notReadySeen
                    /\ last' = [NoOp EXCEPT !.op = "ready", !.id = t,
                                            !.calls = calls,
                                            !.reads = task[t].reads,
                                            !.applied = TRUE]
           ELSE /\ pc' = pc
                /\ tasks' = Requeue(rest, t)
                /\ notReadySeen' = TRUE
                /\ last' = [NoOp EXCEPT !.op = "notready", !.id = t,
                                        !.applied = last.applied]
                /\ UNCHANGED <<clipmap, task, subOrder>>
    /\ polls' = Bump(polls)
    /\ UNCHANGED <<config, db, witnesses, wi, startLen>>

\* load_tasks.pop() returns None: the while loop ends, the for loop begins.
DrainExit ==
    /\ pc = "drain"
    /\ LoopEnds(tasks, notReadySeen)
    /\ pc' = "witness"
    /\ wi' = 1
    /\ last' = [NoOp EXCEPT !.op = "drained", !.applied = last.applied]
    /\ polls' = 0
    /\ startLen' = 0
    /\ notReadySeen' = FALSE
    /\ UNCHANGED <<config, db, witnesses, clipmap, tasks, task, subOrder>>

\* One iteration of  for (witness, tfm) in witness_transforms.iter().
WitnessStep ==
    /\ pc = "witness"
    /\ LET m == Moved(witnesses[wi])
           n == num_tasks(tasks)
       IN  IF m = <<>>
           THEN /\ last' = [NoOp EXCEPT !.op = "witness", !.w = wi, !.n = n,
                                        !.applied = last.applied]
                /\ UNCHANGED <<clipmap, tasks, task, subOrder>>
           ELSE LET atCap == AtCap(n, config)
                    broad == BroadPhaseRuns(atCap)
                    cm == IF broad
                          THEN broad_phase_load_search(clipmap, m[1].old, m[1].new)
                          ELSE clipmap
                    marked == {a \in DOMAIN clipmap : cm[a] # clipmap[a]}
                IN  /\ clipmap' = cm
                    /\ IF atCap
                       THEN /\ last' = [NoOp EXCEPT !.op = "witness", !.w = wi,
                                          !.n = n, !.hadPrev = TRUE,
                                          !.broad = broad, !.marked = marked,
                                          !.atCap = TRUE,
                                          !.applied = last.applied]
                            /\ UNCHANGED <<tasks, task, subOrder>>
                       ELSE LET search == near_phase_load_search(
                                              NearPhaseInput(clipmap, cm), m[1].new)
                                batch_keys == BatchKeys(search, config)
                                id == FreshId(task)
                            IN  IF ~SpawnsTask(batch_keys)
                                THEN /\ last' = [NoOp EXCEPT !.op = "witness",
                                                   !.w = wi, !.n = n,
                                                   !.hadPrev = TRUE,
                                                   !.broad = broad,
                                                   !.marked = marked,
                                                   !.near = TRUE,
                                                   !.search = search,
                                                   !.applied = last.applied]
                                     /\ UNCHANGED <<tasks, task, subOrder>>
                                ELSE
                                /\ \E i \in Ids : task[i].state = "none"
                                /\ task' = [task EXCEPT ![id] =
                                              [state |-> "running",
                                               keys |-> batch_keys,
                                               reads |-> <<>>]]
                                /\ tasks' = Enqueue(tasks, id)
                                /\ subOrder' = Append(subOrder, id)
                                /\ last' = [NoOp EXCEPT !.op = "witness",
                                              !.w = wi, !.n = n, !.id = id,
                                              !.hadPrev = TRUE,
                                              !.broad = broad,
                                              !.marked = marked,
                                              !.near = TRUE,
                                              !.submit = TRUE,
                                              !.search = search,
                                              !.applied = last.applied]
    /\ IF wi < NumWitnesses
       THEN wi' = wi + 1 /\ pc' = pc
       ELSE wi' = 1 /\ pc' = "idle"
    /\ UNCHANGED <<config, db, witnesses, polls, startLen, notReadySeen>>

Next ==
    \/ \E w \in Witnesses : MoveWitness(w)
    \/ \E i \in Ids : Complete(i)
    \/ TickStart
    \/ DrainStep
    \/ DrainExit
    \/ WitnessStep

Spec == Init /\ [][Next]_vars

\* The loader over a store with a failing read.
FailSpec == FailInit /\ [][Next]_vars

TypeOK ==
    /\ config \in LoaderConfig
    /\ witnesses \in [Witnesses -> WitnessState]
    /\ clipmap \in [Addr -> NodeState]
    /\ Range(tasks) \subseteq Ids
    /\ pc \in {"idle", "drain", "witness", "panicked"}
    /\ wi \in Witnesses

\* ------------------------------------------------------------ claims
\* The step of the tick thread that processes the witness the loop is at.
WitnessStepTaken == pc = "witness" /\ (pc' # pc \/ wi' # wi)

\* A batch left the set of outstanding batches, which happens on apply only.
BatchApplied == Len(subOrder') < Len(subOrder)

\* C1: batches are applied to the index strictly in submission order: the
\* batch a step applies is the oldest batch still outstanding, also when a
\* later batch became ready first.
FIFOCommitOrder == [][BatchApplied => subOrder' = Tail(subOrder)]_vars

\* C2: when the polled front entry is not ready it is put back at the front,
\* the queue keeps its submission order and draining stops for this tick.
NotReadyStopsDraining ==
    last.op = "notready" =>
        /\ pc # "drain"
        /\ tasks # <<>> /\ Head(tasks) = last.id
        /\ tasks = subOrder

\* C3: the draining loop of one tick makes at most one poll per entry that
\* was queued when the tick began, whether or not the entries are ready.
AtMostOnePollPerEntry == polls <= startLen

\* C4: the queue never holds more than max_pending_load_tasks batches, and a
\* witness processed while the queue length is at or above the cap submits
\* nothing and leaves the queue as it found it.
BackpressureCap ==
    /\ num_tasks(tasks) <= config.max_pending_load_tasks
    /\ (last.op = "witness" /\ last.n >= config.max_pending_load_tasks) =>
           (~last.submit /\ num_tasks(tasks) = last.n)
    /\ (last.op = "witness" /\ last.submit) =>
           (last.n < config.max_pending_load_tasks /\ num_tasks(tasks) = last.n + 1)

\* C4 witness: a witness with a previous position was processed with as many
\* batches outstanding as the (positive) cap allows, and submitted nothing.
BackpressureCapReached ==
    /\ last.op = "witness" /\ last.hadPrev /\ last.atCap /\ ~last.submit
    /\ config.max_pending_load_tasks > 0
    /\ num_tasks(tasks) = config.max_pending_load_tasks

\* C5: for every witness that has a previous position the broad phase runs
\* on (old, new), also at or above the cap; at or above the cap the near
\* phase and the submission are skipped.
BroadPhaseNotGated ==
    [][(WitnessStepTaken /\ witnesses[wi].prev # <<>>) =>
          /\ last'.broad
          /\ clipmap' = broad_phase_load_search(clipmap, witnesses[wi].prev[1],
                                                witnesses[wi].cur)
          /\ (num_tasks(tasks) >= config.max_pending_load_tasks =>
                 (~last'.near /\ ~last'.submit /\ UNCHANGED <<tasks, task>>))]_vars

\* C5 witness: at the cap, the broad phase marked a node while nothing was
\* submitted.
BroadPhaseMarkedAtCap ==
    /\ last.op = "witness" /\ last.atCap /\ last.broad /\ ~last.submit
    /\ last.marked # {}

\* C6: every submitted batch holds exactly the first min(K, n) candidates of
\* the near-phase search, in the same order.
BatchSizeBound ==
    (last.op = "witness" /\ last.submit) =>
        LET keys == task[last.id].keys
            search == last.search
            K == config.load_batch_size
        IN  /\ Len(keys) <= K
            /\ Len(keys) <= Len(search)
            /\ Len(keys) = Min(K, Len(search))
            /\ \A j \in DOMAIN keys : keys[j] = search[j]

\* C6 witness: a batch was cut to K >= 1 keys out of a longer search.
BatchTruncated ==
    /\ last.op = "witness" /\ last.submit
    /\ config.load_batch_size >= 1
    /\ Len(last.search) > config.load_batch_size
    /\ Len(task[last.id].keys) = config.load_batch_size

\* C7: processing a witness without a previous position calls neither phase,
\* submits nothing, leaves the queue and the index unchanged, and the loop
\* goes on to the next witness.
AbsentPreviousSkip ==
    [][(WitnessStepTaken /\ witnesses[wi].prev = <<>>) =>
          /\ ~last'.broad /\ ~last'.near /\ ~last'.submit
          /\ UNCHANGED <<tasks, task, clipmap>>
          /\ (wi < NumWitnesses => (pc' = "witness" /\ wi' = wi + 1))]_vars

\* C7 witness: the second witness had no previous position and was skipped
\* in a tick in which the first witness submitted a batch.
SkippedBesideSubmitter ==
    /\ last.op = "witness" /\ ~last.hadPrev /\ last.w = 2
    /\ witnesses[1].prev # <<>>
    /\ tasks # <<>>

\* C8: a batch observed ready has fulfill_pending_load called for every pair
\* of its result, absent payloads included, so that none of its addresses is
\* pending afterwards: loaded with a payload, empty without.
FulfillEveryRead ==
    last.op = "ready" =>
        /\ last.calls = last.reads
        /\ \A j \in DOMAIN last.reads :
              clipmap[last.reads[j].key] =
                  (IF last.reads[j].chunk = None THEN "empty" ELSE "loaded")

\* C8 witness: a drained batch had a pair without payload and one with.
DrainedAbsentPayload ==
    /\ last.op = "ready"
    /\ \E j \in DOMAIN last.reads : last.reads[j].chunk = None
    /\ \E j \in DOMAIN last.reads : last.reads[j].chunk # None

FairSpec ==
    /\ Init /\ [][Next]_vars
    /\ \A i \in Ids : WF_vars(Complete(i))
    /\ WF_vars(TickStart)
    /\ WF_vars(DrainStep)
    /\ WF_vars(DrainExit)
    /\ WF_vars(WitnessStep)

\* C10: under FairSpec every queued batch is eventually observed ready,
\* applied and gone from the queue.
EventualDrain ==
    \A i \in Ids :
        (i \in Range(tasks)) ~>
            (last.op = "ready" /\ last.id = i /\ i \notin Range(tasks))

\* C10 witness: a batch was applied in a tick that had polled a task that
\* was not ready.
AppliedAfterNotReady ==
    /\ last.op = "ready" /\ notReadySeen

\* C11: with max_pending_load_tasks = 0 or load_batch_size = 0 no address is
\* ever handed to a task to be read, no node ever becomes loaded, and the
\* draining loop of every tick makes at most one poll per queued entry.
ZeroConfigInert ==
    (config.max_pending_load_tasks = 0 \/ config.load_batch_size = 0) =>
        /\ \A i \in Ids : task[i].keys = <<>>
        /\ \A a \in DOMAIN clipmap : clipmap[a] # "loaded"
        /\ polls <= startLen

\* The loader over a store with a failing read, the pool running every task
\* to its end and the scheduler running the system again and again.
FairFailSpec ==
    /\ FailInit /\ [][Next]_vars
    /\ \A i \in Ids : WF_vars(Complete(i))
    /\ WF_vars(TickStart)
    /\ WF_vars(DrainStep)
    /\ WF_vars(DrainExit)
    /\ WF_vars(WitnessStep)

\* C12: a storage read failure does not crash the tick.
ReadFailureContained == pc # "panicked"

\* C13: every address of a batch whose task hits a failed read is eventually
\* fulfilled (no longer pending), or the failure surfaces in the tick.
NoSilentlyLostNode ==
    \A i \in Ids : \A a \in Addr :
        (/\ task[i].state # "none"
         /\ a \in Range(task[i].keys)
         /\ \E k \in Range(task[i].keys) : db[k] = "err")
        ~> (pc = "panicked" \/ clipmap[a] # "pending")

\* C13 witness: the tick polled a task whose read had failed, and panicked
\* with the address of the failed read still pending.
FailureSurfaced ==
    /\ pc = "panicked" /\ last.op = "panic"
    /\ \E k \in Range(task[last.id].keys) : db[k] = "err" /\ clipmap[k] = "pending"

\* A batch was submitted, which is the only way subOrder grows.
BatchSubmitted == Len(subOrder') > Len(subOrder)

\* C14: inside one tick every application of a ready batch comes before any
\* submission, and the batch a witness submits is taken from the index as its
\* own broad phase has just marked it.
TickOrder ==
    [][/\ (BatchApplied => pc = "drain")
       /\ (BatchSubmitted => pc = "witness")
       /\ (pc = "witness" => pc' \in {"witness", "idle"})
       /\ ((WitnessStepTaken /\ last'.submit) =>
              /\ last'.broad
              /\ task'[last'.id].keys =
                    BatchKeys(near_phase_load_search(
                                 broad_phase_load_search(clipmap,
                                     witnesses[wi].prev[1], witnesses[wi].cur),
                                 witnesses[wi].cur),
                              config))]_vars

\* C14 witness: in a tick that had applied a batch, a witness submitted a
\* batch holding the node its broad phase marked in the same step.
SubmittedJustMarked ==
    /\ last.op = "witness" /\ last.submit /\ last.applied
    /\ last.marked # {}
    /\ last.marked \subseteq Range(task[last.id].keys)

\* C15: the index changes only in steps of loader_system, when it applies a
\* batch it polled ready or processes a witness; a task that finishes leaves
\* the index as it is.
IndexOnlyFromTick ==
    [][clipmap' # clipmap =>
          \/ pc = "drain" /\ BatchApplied
          \/ WitnessStepTaken]_vars

\* C15 witness: a task has finished with a chunk for a node that the index
\* still shows as pending.
ResultNotYetInIndex ==
    \E i \in Ids :
        /\ task[i].state = "done"
        /\ \E j \in DOMAIN task[i].reads :
              /\ task[i].reads[j].chunk # None
              /\ clipmap[task[i].reads[j].key] = "pending"

\* C16: a witness with a previous position that is processed below the cap
\* spawns exactly one task and appends exactly its handle to the back of the
\* queue; any other witness leaves queue and tasks alone; the queue grows in
\* no other step.
OneBatchPerWitnessTick ==
    [][/\ (WitnessStepTaken =>
             IF /\ witnesses[wi].prev # <<>>
                /\ num_tasks(tasks) < config.max_pending_load_tasks
             THEN \E id \in Ids :
                     /\ task[id].state = "none"
                     /\ task'[id].state = "running"
                     /\ \A j \in Ids \ {id} : task'[j] = task[j]
                     /\ tasks' = Append(tasks, id)
             ELSE tasks' = tasks /\ task' = task)
       /\ (Len(tasks') > Len(tasks) => WitnessStepTaken)]_vars

\* C16 witness: the second witness of a tick appended its batch behind the
\* batch of the first.
SecondBatchAppended ==
    /\ last.op = "witness" /\ last.submit /\ last.w = 2 /\ last.n = 1
    /\ Len(tasks) = 2 /\ tasks[2] = last.id

\* The addresses of a sequence of (key, chunk) pairs, in order.
KeysOf(reads) == [j \in DOMAIN reads |-> reads[j].key]

\* C17: the keys of a submitted batch are the leading candidates of the
\* near-phase search in search order, closest to the witness first; a finished
\* task lists its reads in the order of its keys; and draining the batch calls
\* fulfill_pending_load for the keys in that same order.
BatchOrderPreserved ==
    [][/\ (BatchSubmitted =>
             /\ task'[last'.id].keys =
                  SubSeq(last'.search, 1, Len(task'[last'.id].keys))
             /\ \A j, k \in DOMAIN last'.search :
                  j < k => Closer(last'.search[j], last'.search[k],
                                  witnesses[wi].cur))
       /\ (\A i \in Ids : task'[i].state = "done" =>
             KeysOf(task'[i].reads) = task'[i].keys)
       /\ (BatchApplied => KeysOf(last'.calls) = task[Head(tasks)].keys)]_vars

\* C17 witness: a batch of two keys was drained, the higher address first
\* because it was the closer one.
TwoKeysAppliedInOrder ==
    /\ last.op = "ready"
    /\ Len(last.calls) = 2
    /\ last.calls[1].key > last.calls[2].key

\* ------------------------------------------------- the worked example
\* The nodes A, B, C, D, E of the example, as addresses in the order of their
\* distance from the place the witness moves to.
ExampleAddr == 1..5

\* load_batch_size of the example.
ExampleBatchSize == 3

\* The first witness has moved from 0 to 1; the five nodes carry the loading
\* sentinel, so that the near phase yields them in address order; the store
\* holds data for A, C and E and none for B and D.
ExampleInit ==
    /\ config \in [max_pending_load_tasks : 1..MaxCap,
                   load_batch_size : {ExampleBatchSize}]
    /\ db = [a \in ExampleAddr |-> IF a % 2 = 1 THEN "data" ELSE None]
    /\ witnesses = [w \in Witnesses |->
                      IF w = 1 THEN [prev |-> <<0>>, cur |-> 1]
                      ELSE [prev |-> <<>>, cur |-> 0]]
    /\ clipmap = [a \in ExampleAddr |-> "pending"]
    /\ tasks = <<>>
    /\ task = [i \in Ids |-> NoTask]
    /\ pc = "idle"
    /\ wi = 1
    /\ subOrder = <<>>
    /\ polls = 0
    /\ startLen = 0
    /\ notReadySeen = FALSE
    /\ last = NoOp

ExampleSpec == ExampleInit /\ [][Next]_vars

\* No witness but the first has a previous position.
OneWitnessMoves == \A w \in Witnesses \ {1} : witnesses[w].prev = <<>>

\* C18: in the example, the witness whose search yields A, B, C, D, E submits
\* one batch with the keys A, B, C, the only batch queued; once that batch is
\* drained A and C are loaded, B is empty, D and E still carry the loading
\* sentinel and no task holds them.
ExampleOutcome ==
    /\ (/\ last.op = "witness" /\ last.hadPrev /\ ~last.atCap
        /\ last.search = <<1, 2, 3, 4, 5>>
        /\ OneWitnessMoves)
       => /\ last.submit
          /\ task[last.id].keys = <<1, 2, 3>>
          /\ tasks = <<last.id>>
          /\ subOrder = <<last.id>>
    /\ (/\ last.op = "ready"
        /\ KeysOf(last.reads) = <<1, 2, 3>>
        /\ OneWitnessMoves)
       => /\ KeysOf(last.calls) = <<1, 2, 3>>
          /\ clipmap[1] = "loaded"
          /\ clipmap[2] = "empty"
          /\ clipmap[3] = "loaded"
          /\ clipmap[4] = "pending"
          /\ clipmap[5] = "pending"
          /\ tasks = <<>>
          /\ \A i \in Ids : \A j \in DOMAIN task[i].keys :
                task[i].keys[j] \notin {4, 5}

\* C18 witness: the batch A, B, C of the example has been drained.
ExampleDrained ==
    /\ last.op = "ready"
    /\ KeysOf(last.calls) = <<1, 2, 3>>
    /\ OneWitnessMoves
    /\ clipmap[2] = "empty"
    /\ clipmap[5] = "pending"

\* C19: when the draining loop has ended the queue is empty and no batch is
\* outstanding; while the witnesses are processed the queue holds batches of
\* this tick only, at most one per witness already processed, and the count a
\* witness is tested against is the number of those.
QueueEmptyBeforeWitnesses ==
    /\ last.op = "drained" =>
          /\ tasks = <<>>
          /\ subOrder = <<>>
          /\ \A i \in Ids : task[i].state = "none"
    /\ pc = "witness" =>
          /\ num_tasks(tasks) <= wi - 1
          /\ tasks = subOrder
    /\ last.op = "witness" => last.n <= last.w - 1

\* C19 witness: the draining loop has just ended after applying a batch that
\* was outstanding when the tick began.
DrainedThenWitnesses ==
    /\ last.op = "drained"
    /\ last.applied
    /\ pc = "witness"

\* C20: a witness with a previous position processed below the cap submits a
\* batch also when no candidate is left for it (empty search, or
\* load_batch_size = 0): the empty batch is queued and counted by num_tasks,
\* every queued batch, empty or not, is counted against the cap, and draining
\* an empty batch calls fulfill_pending_load not once.
EmptyBatchStillSubmitted ==
    /\ (/\ last.op = "witness" /\ last.hadPrev /\ ~last.atCap
        /\ BatchKeys(last.search, config) = <<>>)
       => /\ last.submit
          /\ task[last.id].state # "none"
          /\ task[last.id].keys = <<>>
          /\ num_tasks(tasks) = last.n + 1
          /\ tasks[Len(tasks)] = last.id
    /\ (last.op = "witness" /\ last.hadPrev)
       => (last.atCap <=> last.n >= config.max_pending_load_tasks)
    /\ (last.op = "ready" /\ last.reads = <<>>)
       => /\ last.calls = <<>>
          /\ num_tasks(tasks) = Len(subOrder)

\* C20 witness: an empty batch holds the last free slot and the next witness
\* of the tick was turned away at the cap because of it.
EmptyBatchHitsCap ==
    /\ last.op = "witness" /\ last.hadPrev /\ last.atCap
    /\ last.n = 1
    /\ task[tasks[1]].keys = <<>>

\* C20 witness of the draining part: an empty batch was drained.
EmptyBatchDrained ==
    /\ last.op = "ready"
    /\ last.reads = <<>>
    /\ last.calls = <<>>

====
